---- MODULE Spec2Model ----
(***************************************************************************)
(* Model of the Lectio message sender.                                     *)
(*                                                                         *)
(*   src/src/lectio.py  LectioBot: the browser session driver and its two  *)
(*                      retry loops (recipient field, whole flow).         *)
(*   src/src/tasks.py   send_lectio_msg: the Celery task, with the         *)
(*                      on_success / on_failure callbacks of its base.     *)
(*   src/src/logs.py    log_event: the append to the log store.            *)
(*                                                                         *)
(* A behaviour exercises one entry point of the repository, chosen in      *)
(* Init: "task" is one job, the Celery task send_lectio_msg run by a       *)
(* worker until it succeeds or fails; "flow" is one direct call of         *)
(* LectioBot.send_message_with_full_retry on a fresh LectioBot.            *)
(***************************************************************************)
EXTENDS Naturals, Sequences, FiniteSets

VARIABLES
    entry,                \* "task" | "flow": the entry point exercised
    applitools_is_active, \* LectioBot.applitools_is_active
    can_be_replied,       \* the request's can_be_replied
    backendReliable,      \* TRUE: no call into the browser backend raises
    pc,                   \* position of the running code
    playwright,           \* LectioBot.playwright is not None
    browser,              \* LectioBot.browser is not None
    page,                 \* LectioBot.page is not None
    eyes,                 \* LectioBot.eyes is not None
    attempt,              \* loop variable of send_message_with_full_retry
    recip,                \* loop variable of send_message (recipient field)
    recipient_clicked,    \* local of send_message
    log,                  \* the logs table, in insertion (id) order
    retries,              \* self.request.retries of the Celery task
    taskState,            \* Celery state of the job
    flowResult,           \* how send_message_with_full_retry ended
    starts,               \* calls of start_playwright so far
    stops,                \* calls of stop_playwright so far
    driversStarted,       \* Playwright drivers started so far
    driversStopped,       \* Playwright drivers stopped so far
    sessionsOpened,       \* browsers launched so far
    sessionsClosed,       \* browsers closed so far
    executions,           \* executions of the task body so far
    recipTries,           \* recipient attempts made in the current send_message
    formReached,          \* the current send_message went on to the subject field
    submitted,            \* send-button clicks that went through
    loggedIn,             \* login_to_lectio returned True in this attempt
    navigated,            \* navigate_to_messages returned True in this attempt
    failure,              \* what failed the attempt under way ("none": nothing)
    lastLogCall,          \* the arguments of the latest log_event(...) call
    queue,                \* task ids handed to the task queue, oldest first
    response,             \* what the latest request or query was answered with
    current,              \* the job whose locals the variables above hold
    other,                \* the locals of the job that is not running now
    held,                 \* the session self.browser refers to (0: None)
    sessionOwner,         \* for every session opened, the job that opened it
    sendResult,           \* how the latest send_message call ended ("none": not yet)
    indicator,            \* the "message sent" indicator after the send click
    tableExists,          \* the logs table exists in the database
    fastapi_connection_pool,  \* _fastapi_connection_pool (0: None, n: the n-th pool made)
    celery_connection_pool,   \* _celery_connection_pool
    poolsConstructed,     \* the pool type of every AsyncConnectionPool constructed
    poolResult            \* how the latest direct pool call ended

vars == << entry, applitools_is_active, can_be_replied, backendReliable, pc,
           playwright, browser, page, eyes, attempt, recip, recipient_clicked,
           log, retries, taskState, flowResult, starts, stops, driversStarted,
           driversStopped, sessionsOpened, sessionsClosed, executions,
           recipTries, formReached, submitted, loggedIn, navigated, failure,
           lastLogCall, queue, response, current, other, held, sessionOwner,
           sendResult, indicator, tableExists, fastapi_connection_pool,
           celery_connection_pool, poolsConstructed, poolResult >>

config == << entry, applitools_is_active, can_be_replied, backendReliable >>
bot    == << playwright, browser, page, eyes >>
env    == << driversStarted, driversStopped, sessionsOpened, sessionsClosed >>
sendLocals == << recip, recipient_clicked, recipTries, formReached, sendResult,
                indicator >>
celery == << retries, taskState, executions >>
steps  == << loggedIn, navigated >>
logs   == << log, lastLogCall >>
api    == << queue, response >>
jobs   == << current, other >>
owners == << held, sessionOwner >>
pools  == << fastapi_connection_pool, celery_connection_pool, poolsConstructed >>
db     == << tableExists, pools, poolResult >>

----------------------------------------------------------------------------
(* Program constants *)

MAX_RETRIES_Short == 20 - 1

MAX_RETRIES == 20          \* send_message: recipient field attempts

MAX_FLOW_RETRIES_Off == 20 + 1

MAX_FLOW_RETRIES == 20     \* send_message_with_full_retry: flow attempts

max_retries == 20          \* @celery_app.task(max_retries=20)

JobIds == << "job-1", "job-2", "job-3", "job-4" >>   \* AsyncResult.id of the jobs
TaskId == JobIds[current]  \* self.request.id
SendTo == "recipient"      \* send_to

----------------------------------------------------------------------------
(* logs.py *)

LogLevel == {"SUCCESS", "INFO", "WARNING", "ERROR"}

\* One row of the logs table.  The description is kept as its template
\* (kind) and the number the template interpolates (n).
Rec(level, tid, kind, n) ==
    [level |-> level, task_id |-> tid, receiver |-> SendTo, kind |-> kind, n |-> n]

\* No log_event call made yet.
NoCall == [level |-> "none", task_id |-> "none", receiver |-> "none", kind |-> "none", n |-> 0]

\* A row of the logs table as log_event's arguments give it.
Row(level, tid, receiver) ==
    [level |-> level, task_id |-> tid, receiver |-> receiver, kind |-> "event", n |-> 0]

log_event_Upsert(store, rec) ==
    IF \E i \in 1..Len(store) : store[i].task_id = rec.task_id
    THEN [i \in 1..Len(store) |->
              IF store[i].task_id = rec.task_id THEN rec ELSE store[i]]
    ELSE Append(store, rec)

\* The body of log_event: INSERT INTO logs ... ; commit.  Without the
\* table the INSERT raises and nothing is stored.
log_event(store, rec) == IF tableExists THEN Append(store, rec) ELSE store

\* CREATE TABLE IF NOT EXISTS logs, when the coroutine is run; a call that
\* is not awaited runs nothing.
init_logs_table(exists, awaited) == exists \/ awaited

\* main.py startup_event: `init_logs_table()` in a plain def, not awaited.
startup_event(exists) == init_logs_table(exists, FALSE)

\* The module globals of logs.py as one value.
PoolState ==
    [fastapi |-> fastapi_connection_pool, celery |-> celery_connection_pool,
     constructed |-> poolsConstructed, raised |-> "none"]

init_connection_pool_Always(ps, pool_type) ==
    IF pool_type = "fastapi"
    THEN [ps EXCEPT !.fastapi = Len(ps.constructed) + 1,
                    !.constructed = Append(@, "fastapi")]
    ELSE IF pool_type = "celery"
    THEN [ps EXCEPT !.celery = Len(ps.constructed) + 1,
                    !.constructed = Append(@, "celery")]
    ELSE [ps EXCEPT !.raised = "ValueError"]

\* init_connection_pool: a pool is constructed only where the global is
\* None; any other pool_type raises ValueError.
init_connection_pool(ps, pool_type) ==
    IF pool_type = "fastapi"
    THEN (IF ps.fastapi = 0
          THEN [ps EXCEPT !.fastapi = Len(ps.constructed) + 1,
                          !.constructed = Append(@, "fastapi")]
          ELSE ps)
    ELSE IF pool_type = "celery"
    THEN (IF ps.celery = 0
          THEN [ps EXCEPT !.celery = Len(ps.constructed) + 1,
                          !.constructed = Append(@, "celery")]
          ELSE ps)
    ELSE [ps EXCEPT !.raised = "ValueError"]

\* The body of get_connection: initialise the pool of that type when the
\* global is None, then take a connection from it.
get_connection_body(ps, pool_type) ==
    IF pool_type = "fastapi"
    THEN (IF ps.fastapi = 0 THEN init_connection_pool(ps, "fastapi") ELSE ps)
    ELSE IF pool_type = "celery"
    THEN (IF ps.celery = 0 THEN init_connection_pool(ps, "celery") ELSE ps)
    ELSE [ps EXCEPT !.raised = "ValueError"]

\* The globals take the values of ps.
PoolsBecome(ps) ==
    /\ fastapi_connection_pool' = ps.fastapi
    /\ celery_connection_pool' = ps.celery
    /\ poolsConstructed' = ps.constructed

\* tasks.py: run_async(log_event(...)) runs the coroutine to completion.
run_async(store, rec) == log_event(store, rec)

\* lectio.py: log_event(...) is called as a plain function.  log_event is
\* an async def, so the call only builds a coroutine object; it is never
\* awaited or scheduled and its body never runs.
lectio_log_event(store, rec) == store

----------------------------------------------------------------------------
(* The browser backend: which way a call into it can go *)

Outcomes(failures) == IF backendReliable THEN {"ok"} ELSE {"ok"} \cup failures

liveBrowsers == sessionsOpened - sessionsClosed
liveDrivers  == driversStarted - driversStopped

----------------------------------------------------------------------------
(* lectio.py: LectioBot *)

\* `except Exception` catches every exception but those derived from
\* BaseException only; sys.exit(1) raises SystemExit, which is one of those.
CaughtByExceptException(exc) == exc # "SystemExit"

StartFailures ==
    {"driver_raises", "launch_raises", "new_page_raises"}
        \cup (IF applitools_is_active THEN {"eyes_open_raises"} ELSE {})

NewSession_Reused(n) == IF n = 0 THEN 1 ELSE n

\* `self.browser = self.playwright.chromium.launch(...)`: a browser of its
\* own for this LectioBot, the (n+1)-th the program launched.
NewSession(n) == n + 1

\* start_playwright, called at the top of a flow attempt.  Whatever raises
\* inside it is answered with sys.exit(1).
start_playwright ==
    /\ pc = "start_playwright"
    /\ starts' = starts + 1
    /\ \E o \in Outcomes(StartFailures) :
        /\ playwright' = (playwright \/ o # "driver_raises")
        /\ browser' = (browser \/ o \notin {"driver_raises", "launch_raises"})
        /\ page' = (page \/ o \in {"ok", "eyes_open_raises"})
        /\ eyes' = (eyes \/ (applitools_is_active /\ o \in {"ok", "eyes_open_raises"}))
        /\ driversStarted' =
               IF o # "driver_raises" THEN driversStarted + 1 ELSE driversStarted
        /\ sessionsOpened' =
               IF o \notin {"driver_raises", "launch_raises"}
               THEN sessionsOpened + 1 ELSE sessionsOpened
        /\ held' =
               IF o \notin {"driver_raises", "launch_raises"}
               THEN NewSession(sessionsOpened) ELSE held
        /\ sessionOwner' =
               IF o \notin {"driver_raises", "launch_raises"}
               THEN Append(sessionOwner, current) ELSE sessionOwner
        /\ IF o = "ok"
           THEN /\ pc' = "login_to_lectio"
                /\ flowResult' = flowResult
           ELSE IF CaughtByExceptException("SystemExit")
           THEN /\ pc' = "flow_except"
                /\ flowResult' = flowResult
           ELSE /\ pc' = "done"
                /\ flowResult' = "SystemExit"
        /\ failure' = IF o = "ok" THEN "none" ELSE o
    /\ loggedIn' = FALSE
    /\ navigated' = FALSE
    /\ UNCHANGED << db, api, jobs, config, attempt, sendLocals, logs, celery, stops,
                    driversStopped, sessionsClosed, submitted >>

AfterLogin_ResultIgnored(result) == "navigate_to_messages"

\* `if not self.login_to_lectio(): raise Exception("login_to_lectio() failed")`
AfterLogin(result) == IF result THEN "navigate_to_messages" ELSE "flow_except"

\* login_to_lectio returns False when the login page is not found, when
\* filling or submitting the form raises, or when the title lacks the user
\* name; the flow answers False with raise Exception("login_to_lectio() failed").
login_to_lectio ==
    /\ pc = "login_to_lectio"
    /\ \E o \in Outcomes({"no_login_page", "form_raises", "title_mismatch"}) :
        /\ pc' = AfterLogin(o = "ok")
        /\ loggedIn' = (o = "ok")
        /\ failure' = IF o = "ok" THEN failure ELSE o
    /\ UNCHANGED << db, api, jobs, owners, config, bot, env, attempt, sendLocals, logs, celery,
                    flowResult, starts, stops, submitted, navigated >>

\* `if not self.navigate_to_messages(): raise Exception(...)`
AfterNavigate(result) == IF result THEN "send_message" ELSE "flow_except"

\* navigate_to_messages returns False when anything in it raises.
navigate_to_messages ==
    /\ pc = "navigate_to_messages"
    /\ \E o \in Outcomes({"goto_raises", "link_missing", "click_raises"}) :
        /\ pc' = AfterNavigate(o = "ok")
        /\ navigated' = (o = "ok")
        /\ failure' = IF o = "ok" THEN failure ELSE o
    /\ UNCHANGED << db, api, jobs, owners, config, bot, env, attempt, sendLocals, logs, celery,
                    flowResult, starts, stops, submitted, loggedIn >>

\* Where control goes when send_message returns `result`: the flow raises on
\* False; the task discards the value.
AfterSendReturn(result) ==
    IF entry = "flow"
    THEN (IF result THEN "flow_success" ELSE "flow_except")
    ELSE "task_returned"

AfterSendRaise_CalledAgain == "send_message"

AfterSendRaise_Swallowed == IF entry = "flow" THEN "flow_except" ELSE "task_returned"

\* Where control goes when an exception escapes send_message.
AfterSendRaise == IF entry = "flow" THEN "flow_except" ELSE "task_except"

\* send_message up to the recipient loop.  self.page.locator(...) is outside
\* any try: with page None it raises AttributeError.  expect(locator, 'end')
\* only builds an assertion object and cannot raise.
send_message ==
    /\ pc = "send_message"
    /\ IF page
       THEN /\ pc' = "recipient"
            /\ recip' = 1
       ELSE /\ pc' = AfterSendRaise
            /\ recip' = recip
    /\ recipient_clicked' = FALSE
    /\ recipTries' = 0
    /\ formReached' = FALSE
    /\ failure' = IF page THEN failure ELSE "page_is_none"
    /\ sendResult' = IF page THEN "none" ELSE "raised"
    /\ indicator' = "unknown"
    /\ UNCHANGED << db, api, jobs, owners, config, bot, env, attempt, logs, celery, flowResult, starts,
                    stops, submitted, steps >>

\* The record send_message builds when the 20th recipient attempt fails:
\* level ERROR, task_id="N/A" (send_message is not given the task id).
RecipientFailureRecord == Rec("ERROR", "N/A", "recipient_failed", MAX_RETRIES)

\* One iteration of `for attempt in range(1, MAX_RETRIES + 1)`: clear the
\* field, type the recipient, click the suggestion.
send_message_recipient ==
    /\ pc = "recipient"
    /\ recipTries' = recipTries + 1
    /\ \E o \in Outcomes({"fill_raises", "type_raises", "click_raises"}) :
        IF o = "ok"
        THEN /\ recipient_clicked' = TRUE
             /\ pc' = "fill_and_submit"
             /\ UNCHANGED << recip, logs, failure, sendResult >>
        ELSE IF recip = MAX_RETRIES
        THEN /\ log' = lectio_log_event(log, RecipientFailureRecord)
             /\ lastLogCall' = RecipientFailureRecord
             /\ pc' = AfterSendReturn(FALSE)
             /\ sendResult' = "False"
             /\ failure' = "recipient_failed"
             /\ UNCHANGED << recip, recipient_clicked >>
        ELSE IF recip + 1 <= MAX_RETRIES
        THEN /\ recip' = recip + 1
             /\ UNCHANGED << pc, recipient_clicked, logs, failure, sendResult >>
        ELSE /\ pc' = AfterSendReturn(recipient_clicked)
             /\ sendResult' = "False"
             /\ failure' = "recipient_failed"
             /\ UNCHANGED << recip, recipient_clicked, logs >>
    /\ UNCHANGED << db, api, jobs, owners, config, bot, env, attempt, celery, flowResult, starts,
                    stops, formReached, submitted, steps, indicator >>

\* After the send click the page shows the indicator or, when the backend
\* did not take the message, does not.
IndicatorAfter(o) == IF backendReliable THEN {"present"} ELSE {"present", "absent"}

\* The check after the click: `expect(locator, 'more_vert')` builds an
\* assertion object and asserts nothing, so the except branch with its
\* `return False` is never taken and the code goes on to `return True`
\* whatever the page shows.
AfterSendClick(clicked) == clicked

SubmitFailures ==
    {"subject_raises", "body_raises", "send_click_raises"}
        \cup (IF can_be_replied THEN {} ELSE {"checkbox_raises"})
        \cup (IF applitools_is_active THEN {"eyes_check_raises"} ELSE {})

\* send_message after the recipient: subject, reply checkbox, body and the
\* visual check are outside any try; the send click is inside one and
\* returns False; expect(locator, 'more_vert') cannot raise.  The recipient
\* loop was left by `break`: its variable and the count of its iterations
\* are not read again.
send_message_submit ==
    /\ pc = "fill_and_submit"
    /\ formReached' = TRUE
    /\ \E o \in Outcomes(SubmitFailures) :
        /\ pc' = IF o = "ok" THEN AfterSendReturn(AfterSendClick(TRUE))
                 ELSE IF o = "send_click_raises" THEN AfterSendReturn(FALSE)
                 ELSE AfterSendRaise
        /\ sendResult' = IF o = "ok" THEN (IF AfterSendClick(TRUE) THEN "True" ELSE "False")
                         ELSE IF o = "send_click_raises" THEN "False"
                         ELSE "raised"
        /\ submitted' = IF o = "ok" THEN submitted + 1 ELSE submitted
        /\ failure' = IF o = "ok" THEN failure ELSE o
        /\ indicator' \in IF o = "ok" THEN IndicatorAfter(o) ELSE {indicator}
    /\ recip' = 0
    /\ recipTries' = 0
    /\ UNCHANGED << db, api, jobs, owners, config, bot, env, attempt, recipient_clicked,
                    logs, celery, flowResult, starts, stops, steps >>

\* The caller of send_message has taken its result: the locals of that call
\* are gone.
SendFrameDropped ==
    /\ recip' = 0
    /\ recipient_clicked' = FALSE
    /\ recipTries' = 0
    /\ formReached' = FALSE
    /\ sendResult' = "none"
    /\ indicator' = "unknown"

StopFailures ==
    (IF browser /\ applitools_is_active THEN {"eyes_close_raises"} ELSE {})
        \cup (IF browser THEN {"browser_close_raises"} ELSE {})
        \cup (IF playwright THEN {"driver_stop_raises"} ELSE {})

\* stop_playwright with outcome o.  The first call that raises ends the try
\* block: what comes after it is skipped and the exception is printed.
stop_playwright(o) ==
    /\ stops' = stops + 1
    /\ sessionsClosed' =
           IF browser /\ o \in {"ok", "driver_stop_raises"}
           THEN sessionsClosed + 1 ELSE sessionsClosed
    /\ driversStopped' =
           IF playwright /\ o = "ok" THEN driversStopped + 1 ELSE driversStopped
    /\ UNCHANGED << driversStarted, sessionsOpened >>

IsFinalFlowAttempt_Late(a) == a = MAX_FLOW_RETRIES + 1

\* `if attempt == MAX_FLOW_RETRIES`
IsFinalFlowAttempt(a) == a = MAX_FLOW_RETRIES

\* send_message_with_full_retry is called: the first iteration of
\* `for attempt in range(1, MAX_FLOW_RETRIES + 1)`.
send_message_with_full_retry ==
    /\ pc = "idle"
    /\ entry = "flow"
    /\ attempt' = 1
    /\ pc' = "start_playwright"
    /\ UNCHANGED << db, api, jobs, owners, config, bot, env, sendLocals, logs, celery, flowResult,
                    starts, stops, submitted, steps, failure >>

\* "If we got here, success!": stop_playwright, return True.
flow_success ==
    /\ pc = "flow_success"
    /\ \E o \in Outcomes(StopFailures) : stop_playwright(o)
    /\ flowResult' = "True"
    /\ pc' = "done"
    /\ SendFrameDropped
    /\ loggedIn' = FALSE
    /\ navigated' = FALSE
    /\ UNCHANGED << db, api, jobs, owners, config, bot, attempt, logs, celery, starts, submitted,
                    failure >>

\* The except branch of the flow: stop_playwright, then on the final
\* attempt log ERROR and re-raise, otherwise log INFO and go round again.
flow_except ==
    /\ pc = "flow_except"
    /\ \E o \in Outcomes(StopFailures) : stop_playwright(o)
    /\ IF IsFinalFlowAttempt(attempt)
       THEN /\ log' = lectio_log_event(log, Rec("ERROR", TaskId, "flow_failed", MAX_FLOW_RETRIES))
            /\ lastLogCall' = Rec("ERROR", TaskId, "flow_failed", MAX_FLOW_RETRIES)
            /\ flowResult' = "raised"
            /\ pc' = "done"
            /\ attempt' = attempt
            /\ failure' = failure
       ELSE /\ log' = lectio_log_event(log, Rec("INFO", TaskId, "flow_retry", attempt))
            /\ lastLogCall' = Rec("INFO", TaskId, "flow_retry", attempt)
            /\ failure' = "none"
            /\ IF attempt + 1 <= MAX_FLOW_RETRIES
               THEN /\ attempt' = attempt + 1
                    /\ pc' = "start_playwright"
                    /\ flowResult' = flowResult
               ELSE /\ attempt' = attempt
                    /\ pc' = "done"
                    /\ flowResult' = "False"
    /\ SendFrameDropped
    /\ loggedIn' = FALSE
    /\ navigated' = FALSE
    /\ UNCHANGED << db, api, jobs, owners, config, bot, celery, starts, submitted >>

----------------------------------------------------------------------------
(* tasks.py: the Celery task *)

TaskRetry_IgnoresExc(r, excGiven) ==
    IF r + 1 > max_retries THEN "MaxRetriesExceededError" ELSE "Retry"

\* Task.retry as send_lectio_msg calls it: past max_retries it raises the
\* exception it was given, and MaxRetriesExceededError only when it was
\* given none; otherwise it re-queues the task and raises Retry.
TaskRetry(r, excGiven) ==
    IF r + 1 > max_retries
    THEN (IF excGiven THEN "exc" ELSE "MaxRetriesExceededError")
    ELSE "Retry"

\* One execution of the task body up to the call of send_message: the
\* "Starting" record (log_event takes its connection through
\* get_connection("celery")), then inside the try pool and table
\* initialisation, a new LectioBot (all four handles None), and the call
\* lectio_session.send_message(...).  When the INSERT of the "Starting"
\* record raises, the exception leaves the body before the try.
send_lectio_msg ==
    /\ pc = "queued"
    /\ entry = "task"
    /\ executions' = executions + 1
    /\ taskState' = "STARTED"
    /\ log' = run_async(log, Rec("INFO", TaskId, "starting", 0))
    /\ lastLogCall' = Rec("INFO", TaskId, "starting", 0)
    /\ loggedIn' = FALSE
    /\ navigated' = FALSE
    /\ failure' = "none"
    /\ playwright' = FALSE
    /\ browser' = FALSE
    /\ page' = FALSE
    /\ eyes' = FALSE
    /\ held' = 0
    /\ PoolsBecome(IF tableExists
                   THEN init_connection_pool(get_connection_body(PoolState, "celery"), "celery")
                   ELSE get_connection_body(PoolState, "celery"))
    /\ tableExists' = IF tableExists THEN init_logs_table(tableExists, TRUE) ELSE tableExists
    /\ pc' = IF tableExists THEN "send_message" ELSE "task_raised"
    /\ UNCHANGED << poolResult, api, jobs, sessionOwner, config, env, attempt, sendLocals, retries, flowResult,
                    starts, stops, submitted >>

\* The except branch of the task body: the WARNING record, then self.retry.
send_lectio_msg_except ==
    /\ pc = "task_except"
    /\ LET warned == run_async(log, Rec("WARNING", TaskId, "will_retry", retries + 1))
           r == TaskRetry(retries, TRUE)
       IN  IF r = "Retry"
           THEN /\ log' = warned
                /\ lastLogCall' = Rec("WARNING", TaskId, "will_retry", retries + 1)
                /\ retries' = retries + 1
                /\ taskState' = "RETRY"
                /\ pc' = "queued"
                /\ failure' = "none"
           ELSE IF r = "MaxRetriesExceededError"
           THEN /\ log' = run_async(warned, Rec("ERROR", TaskId, "retries_exhausted", retries))
                /\ lastLogCall' = Rec("ERROR", TaskId, "retries_exhausted", retries)
                /\ pc' = "task_raised"
                /\ UNCHANGED << retries, taskState, failure >>
           ELSE /\ log' = warned
                /\ lastLogCall' = Rec("WARNING", TaskId, "will_retry", retries + 1)
                /\ pc' = "task_raised"
                /\ UNCHANGED << retries, taskState, failure >>
    /\ SendFrameDropped
    /\ UNCHANGED << db, api, jobs, owners, config, bot, env, attempt, executions,
                    flowResult, starts, stops, submitted, steps >>

\* BaseTaskWithLogging.on_success
on_success(store) == run_async(store, Rec("SUCCESS", TaskId, "task_completed", 0))

\* BaseTaskWithLogging.on_failure
on_failure(store) == run_async(store, Rec("ERROR", TaskId, "task_failed", 0))

\* The worker ends the job: on_success when the body returned, on_failure
\* when an exception other than Retry left it.
task_finished ==
    /\ pc \in {"task_returned", "task_raised"}
    /\ IF pc = "task_returned"
       THEN /\ log' = on_success(log)
            /\ lastLogCall' = Rec("SUCCESS", TaskId, "task_completed", 0)
            /\ taskState' = "SUCCESS"
       ELSE /\ log' = on_failure(log)
            /\ lastLogCall' = Rec("ERROR", TaskId, "task_failed", 0)
            /\ taskState' = "FAILURE"
    /\ pc' = "done"
    /\ SendFrameDropped
    /\ UNCHANGED << db, api, jobs, owners, config, bot, env, attempt, retries, executions,
                    flowResult, starts, stops, submitted, steps, failure >>

\* Nothing was requested yet.
NoResponse == [op |-> "none", arg |-> "none", status |-> 0, body |-> << >>]

\* No second job.
NoJob == [pc |-> "none"]

----------------------------------------------------------------------------
(* The specification *)

Init ==
    /\ entry \in {"task", "flow"}
    /\ applitools_is_active \in BOOLEAN
    /\ can_be_replied \in BOOLEAN
    /\ backendReliable \in BOOLEAN
    /\ pc = IF entry = "task" THEN "queued" ELSE "idle"
    /\ playwright = FALSE
    /\ browser = FALSE
    /\ page = FALSE
    /\ eyes = FALSE
    /\ attempt = 0
    /\ recip = 0
    /\ recipient_clicked = FALSE
    /\ log = << >>
    /\ retries = 0
    /\ taskState = "PENDING"
    /\ flowResult = "none"
    /\ starts = 0
    /\ stops = 0
    /\ driversStarted = 0
    /\ driversStopped = 0
    /\ sessionsOpened = 0
    /\ sessionsClosed = 0
    /\ executions = 0
    /\ recipTries = 0
    /\ formReached = FALSE
    /\ submitted = 0
    /\ loggedIn = FALSE
    /\ navigated = FALSE
    /\ failure = "none"
    /\ lastLogCall = NoCall
    /\ queue = IF entry = "task" THEN << JobIds[1] >> ELSE << >>
    /\ response = NoResponse
    /\ current = 1
    /\ other = NoJob
    /\ held = 0
    /\ sessionOwner = << >>
    /\ sendResult = "none"
    /\ indicator = "unknown"
    /\ fastapi_connection_pool = 0
    /\ celery_connection_pool = 0
    /\ poolsConstructed = << >>
    /\ poolResult = "none"
    /\ tableExists = TRUE

Next ==
    \/ send_message_with_full_retry
    \/ start_playwright
    \/ login_to_lectio
    \/ navigate_to_messages
    \/ send_message
    \/ send_message_recipient
    \/ send_message_submit
    \/ flow_success
    \/ flow_except
    \/ send_lectio_msg
    \/ send_lectio_msg_except
    \/ task_finished

Spec == Init /\ [][Next]_vars

\* A worker that has taken a job keeps executing it, and every call into
\* the browser backend returns or times out: a step that can be taken is
\* eventually taken.
FairSpec == Init /\ [][Next]_vars /\ WF_vars(Next)

----------------------------------------------------------------------------
(* logs.py: the logs table, its writers and its readers; main.py: the
   request surface *)

MaxRows == 3               \* rows the table is filled up to
MaxRequests == 2           \* POST /send-message requests made

StoreLevels == {"INFO", "ERROR"}
StoreTaskIds == {JobIds[1], JobIds[2]}
StoreReceivers == {SendTo, "someone else"}

\* log_event_general: log_event with task_id "N/A".
log_event_general(store, level, receiver) == log_event(store, Row(level, "N/A", receiver))

\* SELECT id, ... FROM logs WHERE <Match> ORDER BY id DESC: the id of a row
\* is its serial number, so the rows come newest first.
SelectOrderByIdDesc(store, Match(_)) ==
    LET F[i \in 0..Len(store)] ==
            IF i = 0 THEN << >>
            ELSE (IF Match(store[i]) THEN << [id |-> i, row |-> store[i]] >> ELSE << >>)
                     \o F[i - 1]
    IN  F[Len(store)]

fetch_logs_by_task_id(store, task_id) ==
    SelectOrderByIdDesc(store, LAMBDA r : r.task_id = task_id)

fetch_logs_by_receiver(store, receiver) ==
    SelectOrderByIdDesc(store, LAMBDA r : r.receiver = receiver)

fetch_all_logs(store) == SelectOrderByIdDesc(store, LAMBDA r : TRUE)

\* A caller awaits log_event(...) with arguments of its choice.
log_event_call ==
    /\ Len(log) < MaxRows
    /\ \E level \in StoreLevels, tid \in StoreTaskIds, receiver \in StoreReceivers :
        /\ log' = log_event(log, Row(level, tid, receiver))
        /\ lastLogCall' = Row(level, tid, receiver)
    /\ UNCHANGED << db, api, jobs, owners, config, bot, env, attempt, sendLocals, celery,
                    pc, flowResult, starts, stops, submitted, steps, failure >>

\* A caller awaits log_event_general(...).
log_event_general_call ==
    /\ Len(log) < MaxRows
    /\ \E level \in StoreLevels, receiver \in StoreReceivers :
        /\ log' = log_event_general(log, level, receiver)
        /\ lastLogCall' = Row(level, "N/A", receiver)
    /\ UNCHANGED << db, api, jobs, owners, config, bot, env, attempt, sendLocals, celery,
                    pc, flowResult, starts, stops, submitted, steps, failure >>

Answered(op, arg, status, body) == [op |-> op, arg |-> arg, status |-> status, body |-> body]

fetch_logs_by_task_id_call ==
    /\ \E task_id \in StoreTaskIds \cup {"N/A"} :
        response' = Answered("fetch_logs_by_task_id", task_id, 0,
                             fetch_logs_by_task_id(log, task_id))
    /\ UNCHANGED << db, queue, jobs, owners, config, bot, env, attempt, sendLocals, celery,
                    logs, pc, flowResult, starts, stops, submitted, steps, failure >>

fetch_logs_by_receiver_call ==
    /\ \E receiver \in StoreReceivers :
        response' = Answered("fetch_logs_by_receiver", receiver, 0,
                             fetch_logs_by_receiver(log, receiver))
    /\ UNCHANGED << db, queue, jobs, owners, config, bot, env, attempt, sendLocals, celery,
                    logs, pc, flowResult, starts, stops, submitted, steps, failure >>

fetch_all_logs_call ==
    /\ response' = Answered("fetch_all_logs", "none", 0, fetch_all_logs(log))
    /\ UNCHANGED << db, queue, jobs, owners, config, bot, env, attempt, sendLocals, celery,
                    logs, pc, flowResult, starts, stops, submitted, steps, failure >>

\* What a call of the coroutine function get_connection gives its caller:
\* a connection when awaited, the coroutine object when not.
get_connection(awaited) == IF awaited THEN "connection" ELSE "coroutine"

\* The three GET handlers of main.py: `conn = get_connection()` without
\* await, then `with conn.cursor() as cur`.  A coroutine object has no
\* cursor attribute: AttributeError, `finally: conn.close()` closes the
\* coroutine, and the request is answered with status 500.
QueryEndpoint(op, arg, rows) ==
    LET conn == get_connection(FALSE)
    IN  IF conn = "connection"
        THEN Answered(op, arg, 200, rows)
        ELSE Answered(op, arg, 500, << >>)

get_logs_by_task_id ==
    /\ \E task_id \in StoreTaskIds \cup {"N/A"} :
        response' = QueryEndpoint("GET /logs/by_task_id", task_id,
                                  SelectOrderByIdDesc(log, LAMBDA r : r.task_id = task_id))
    /\ UNCHANGED << db, queue, jobs, owners, config, bot, env, attempt, sendLocals, celery,
                    logs, pc, flowResult, starts, stops, submitted, steps, failure >>

get_logs_by_receiver ==
    /\ \E receiver \in StoreReceivers :
        response' = QueryEndpoint("GET /logs/by_receiver", receiver,
                                  SelectOrderByIdDesc(log, LAMBDA r : r.receiver = receiver))
    /\ UNCHANGED << db, queue, jobs, owners, config, bot, env, attempt, sendLocals, celery,
                    logs, pc, flowResult, starts, stops, submitted, steps, failure >>

get_logs_pretty ==
    /\ response' = QueryEndpoint("GET /logs", "none",
                                 SelectOrderByIdDesc(log, LAMBDA r : TRUE))
    /\ UNCHANGED << db, queue, jobs, owners, config, bot, env, attempt, sendLocals, celery,
                    logs, pc, flowResult, starts, stops, submitted, steps, failure >>

delay_Twice(q) ==
    [id |-> JobIds[Len(q) + 1], queue |-> Append(Append(q, JobIds[Len(q) + 1]), JobIds[Len(q) + 1])]

\* send_lectio_msg.delay(...): one message on the task queue, and the
\* AsyncResult with the new job's id.
delay(q) == [id |-> JobIds[Len(q) + 1], queue |-> Append(q, JobIds[Len(q) + 1])]

\* POST /send-message
api_send_message ==
    /\ Len(queue) < MaxRequests
    /\ LET task == delay(queue)
       IN  /\ queue' = task.queue
           /\ response' = Answered("POST /send-message", "none", 200,
                                   [task_id |-> task.id, status |-> "Task submitted"])
    /\ UNCHANGED << db, jobs, owners, config, bot, env, attempt, sendLocals, celery,
                    logs, pc, flowResult, starts, stops, submitted, steps, failure >>

\* The worker takes the next message off the queue when it is free: the
\* job starts with request.retries = 0.
worker_takes_job ==
    /\ pc \in {"no_job", "done"}
    /\ current < Len(queue)
    /\ current' = current + 1
    /\ pc' = "queued"
    /\ retries' = 0
    /\ executions' = 0
    /\ taskState' = "PENDING"
    /\ UNCHANGED << db, api, other, owners, config, bot, env, attempt, sendLocals,
                    logs, flowResult, starts, stops, submitted, steps, failure >>

\* A process in which no job runs: nothing queued, nothing logged.
Idle ==
    /\ entry = "task"
    /\ applitools_is_active = FALSE
    /\ can_be_replied = TRUE
    /\ backendReliable = FALSE
    /\ pc = "no_job"
    /\ playwright = FALSE
    /\ browser = FALSE
    /\ page = FALSE
    /\ eyes = FALSE
    /\ attempt = 0
    /\ recip = 0
    /\ recipient_clicked = FALSE
    /\ log = << >>
    /\ retries = 0
    /\ taskState = "PENDING"
    /\ flowResult = "none"
    /\ starts = 0
    /\ stops = 0
    /\ driversStarted = 0
    /\ driversStopped = 0
    /\ sessionsOpened = 0
    /\ sessionsClosed = 0
    /\ executions = 0
    /\ recipTries = 0
    /\ formReached = FALSE
    /\ submitted = 0
    /\ loggedIn = FALSE
    /\ navigated = FALSE
    /\ failure = "none"
    /\ lastLogCall = NoCall
    /\ queue = << >>
    /\ response = NoResponse
    /\ other = NoJob
    /\ held = 0
    /\ sessionOwner = << >>
    /\ sendResult = "none"
    /\ indicator = "unknown"
    /\ fastapi_connection_pool = 0
    /\ celery_connection_pool = 0
    /\ poolsConstructed = << >>
    /\ poolResult = "none"

InitStore == Idle /\ current = 1 /\ tableExists = TRUE

NextStore ==
    \/ log_event_call
    \/ log_event_general_call
    \/ fetch_logs_by_task_id_call
    \/ fetch_logs_by_receiver_call
    \/ fetch_all_logs_call
    \/ get_logs_by_task_id
    \/ get_logs_by_receiver
    \/ get_logs_pretty

\* The logs table under arbitrary writers and readers.
SpecStore == InitStore /\ [][NextStore]_vars

\* After start-up: the database is a fresh one or has the table from an
\* earlier deployment, and startup_event has run.
InitApi ==
    /\ Idle
    /\ current = 0
    /\ tableExists \in {startup_event(exists) : exists \in BOOLEAN}

PoolTypeArgs == {"fastapi", "celery", "redis"}

\* Some caller awaits init_connection_pool(pool_type).
init_connection_pool_call ==
    /\ \E pool_type \in PoolTypeArgs :
        LET ps == init_connection_pool(PoolState, pool_type)
        IN  /\ PoolsBecome(ps)
            /\ poolResult' = IF ps.raised = "none" THEN "returned" ELSE ps.raised
    /\ UNCHANGED << tableExists, api, jobs, owners, config, bot, env, attempt, sendLocals,
                    celery, logs, pc, flowResult, starts, stops, submitted, steps, failure >>

\* Some caller awaits get_connection(pool_type).
get_connection_call ==
    /\ \E pool_type \in PoolTypeArgs :
        LET ps == get_connection_body(PoolState, pool_type)
        IN  /\ PoolsBecome(ps)
            /\ poolResult' = IF ps.raised = "none" THEN "connection" ELSE ps.raised
    /\ UNCHANGED << tableExists, api, jobs, owners, config, bot, env, attempt, sendLocals,
                    celery, logs, pc, flowResult, starts, stops, submitted, steps, failure >>

NextApi ==
    \/ init_connection_pool_call
    \/ get_connection_call
    \/ api_send_message
    \/ worker_takes_job
    \/ send_lectio_msg
    \/ send_message
    \/ send_lectio_msg_except
    \/ task_finished

\* The request surface with one worker running the queued jobs in turn.
SpecApi == InitApi /\ [][NextApi]_vars

----------------------------------------------------------------------------
(* Two jobs running at the same time (two worker processes, or two calls of
   the flow on two LectioBot objects) *)

TailRounds == 2            \* executions a task has left when both run together

\* Everything that is local to one job: the task's request and the fields
\* of the LectioBot it constructed.
Locals ==
    [pc |-> pc, playwright |-> playwright, browser |-> browser, page |-> page,
     eyes |-> eyes, held |-> held, attempt |-> attempt, recip |-> recip,
     recipient_clicked |-> recipient_clicked, recipTries |-> recipTries,
     formReached |-> formReached, retries |-> retries, taskState |-> taskState,
     executions |-> executions, flowResult |-> flowResult, starts |-> starts,
     stops |-> stops, submitted |-> submitted, loggedIn |-> loggedIn,
     navigated |-> navigated, failure |-> failure, sendResult |-> sendResult,
     indicator |-> indicator]

\* The running job's locals are l.
Running(l) ==
    /\ pc = l.pc
    /\ playwright = l.playwright
    /\ browser = l.browser
    /\ page = l.page
    /\ eyes = l.eyes
    /\ held = l.held
    /\ attempt = l.attempt
    /\ recip = l.recip
    /\ recipient_clicked = l.recipient_clicked
    /\ recipTries = l.recipTries
    /\ formReached = l.formReached
    /\ retries = l.retries
    /\ taskState = l.taskState
    /\ executions = l.executions
    /\ flowResult = l.flowResult
    /\ starts = l.starts
    /\ stops = l.stops
    /\ submitted = l.submitted
    /\ loggedIn = l.loggedIn
    /\ navigated = l.navigated
    /\ failure = l.failure
    /\ sendResult = l.sendResult
    /\ indicator = l.indicator

\* The scheduler lets the other job take its next step.
Switch ==
    /\ other # NoJob
    /\ other' = Locals
    /\ current' = 3 - current
    /\ pc' = other.pc
    /\ playwright' = other.playwright
    /\ browser' = other.browser
    /\ page' = other.page
    /\ eyes' = other.eyes
    /\ held' = other.held
    /\ attempt' = other.attempt
    /\ recip' = other.recip
    /\ recipient_clicked' = other.recipient_clicked
    /\ recipTries' = other.recipTries
    /\ formReached' = other.formReached
    /\ retries' = other.retries
    /\ taskState' = other.taskState
    /\ executions' = other.executions
    /\ flowResult' = other.flowResult
    /\ starts' = other.starts
    /\ stops' = other.stops
    /\ submitted' = other.submitted
    /\ loggedIn' = other.loggedIn
    /\ navigated' = other.navigated
    /\ failure' = other.failure
    /\ sendResult' = other.sendResult
    /\ indicator' = other.indicator
    /\ UNCHANGED << db, api, config, env, logs, sessionOwner >>

\* Rounds each job has behind it when the two start to run together: a
\* task has its last TailRounds executions left, a flow its last attempt.
TaskRoundsDone == (max_retries + 1) - TailRounds
FlowRoundsDone == MAX_FLOW_RETRIES - 1

\* The rows job j appended in its first k executions, each of which failed:
\* "Starting" and "Will retry" per execution.
TaskRows(j, k) ==
    LET F[r \in 0..k] ==
            IF r = 0 THEN << >>
            ELSE F[r - 1] \o << Rec("INFO", JobIds[j], "starting", 0),
                                Rec("WARNING", JobIds[j], "will_retry", r) >>
    IN  F[k]

\* A task job waiting for its next execution after k failed ones.
TaskLocalsAfter(k) ==
    [pc |-> "queued", playwright |-> FALSE, browser |-> FALSE, page |-> FALSE,
     eyes |-> FALSE, held |-> 0, attempt |-> 0, recip |-> 0,
     recipient_clicked |-> FALSE, recipTries |-> 0, formReached |-> FALSE,
     retries |-> k, taskState |-> "RETRY", executions |-> k,
     flowResult |-> "none", starts |-> 0, stops |-> 0, submitted |-> 0,
     loggedIn |-> FALSE, navigated |-> FALSE, failure |-> "none",
     sendResult |-> "none", indicator |-> "unknown"]

\* A flow about to start attempt k + 1 after k attempts that failed in
\* login_to_lectio and were closed; last is its latest session.
FlowLocalsAfter(k, last) ==
    [pc |-> "start_playwright", playwright |-> TRUE, browser |-> TRUE,
     page |-> TRUE, eyes |-> applitools_is_active, held |-> last,
     attempt |-> k + 1, recip |-> 0, recipient_clicked |-> FALSE,
     recipTries |-> 0, formReached |-> FALSE, retries |-> 0,
     taskState |-> "PENDING", executions |-> 0, flowResult |-> "none",
     starts |-> k, stops |-> k, submitted |-> 0, loggedIn |-> FALSE,
     navigated |-> FALSE, failure |-> "none", sendResult |-> "none",
     indicator |-> "unknown"]

InitTwoJobs ==
    /\ entry \in {"task", "flow"}
    /\ applitools_is_active \in BOOLEAN
    /\ can_be_replied = TRUE
    /\ backendReliable = FALSE
    /\ current = 1
    /\ queue = IF entry = "task" THEN << JobIds[1], JobIds[2] >> ELSE << >>
    /\ response = NoResponse
    /\ LET k == IF entry = "task" THEN 0 ELSE FlowRoundsDone
       IN  /\ driversStarted = 2 * k
           /\ driversStopped = 2 * k
           /\ sessionsOpened = 2 * k
           /\ sessionsClosed = 2 * k
           /\ sessionOwner = [i \in 1..(2 * k) |-> IF i <= k THEN 1 ELSE 2]
           /\ Running(IF entry = "task" THEN TaskLocalsAfter(TaskRoundsDone)
                       ELSE FlowLocalsAfter(k, k))
           /\ other = IF entry = "task" THEN TaskLocalsAfter(TaskRoundsDone)
                      ELSE FlowLocalsAfter(k, 2 * k)
    /\ log = IF entry = "task"
             THEN TaskRows(1, TaskRoundsDone) \o TaskRows(2, TaskRoundsDone)
             ELSE << >>
    /\ lastLogCall = IF entry = "task"
                     THEN Rec("WARNING", JobIds[2], "will_retry", TaskRoundsDone)
                     ELSE Rec("INFO", JobIds[2], "flow_retry", FlowRoundsDone)
    /\ tableExists = TRUE
    /\ fastapi_connection_pool = 0
    /\ celery_connection_pool = IF entry = "task" THEN 1 ELSE 0
    /\ poolsConstructed = IF entry = "task" THEN << "celery" >> ELSE << >>
    /\ poolResult = "none"

NextTwoJobs ==
    \/ Switch
    \/ start_playwright
    \/ login_to_lectio
    \/ navigate_to_messages
    \/ send_message
    \/ send_message_recipient
    \/ send_message_submit
    \/ flow_success
    \/ flow_except
    \/ send_lectio_msg
    \/ send_lectio_msg_except
    \/ task_finished

\* Two jobs interleaved step by step, from the point where each has its
\* last rounds left.
SpecTwoJobs == InitTwoJobs /\ [][NextTwoJobs]_vars

----------------------------------------------------------------------------
(* Reading the log store *)

Rows(P(_)) == { i \in DOMAIN log : P(log[i]) }

IsTerminal(r) == r.task_id = TaskId /\ r.level \in {"SUCCESS", "ERROR"}
IsSuccess(r)  == r.task_id = TaskId /\ r.level = "SUCCESS"
IsError(r)    == r.task_id = TaskId /\ r.level = "ERROR"
IsInfo(r)     == r.task_id = TaskId /\ r.level = "INFO"
IsWarning(r)  == r.task_id = TaskId /\ r.level = "WARNING"
IsOther(r)    == r.task_id = TaskId /\ r.level \notin {"SUCCESS", "ERROR"}

\* A record announcing a retry after attempt k.
AnnouncesRetry(r, k) ==
    /\ r.task_id = TaskId
    /\ r.level \in {"INFO", "WARNING"}
    /\ r.kind \in {"flow_retry", "will_retry"}
    /\ r.n = k

TaskDone == entry = "task" /\ pc = "done"
FlowDone == entry = "flow" /\ pc = "done"

\* The number of the flow-level attempt under way (or last made).
CurrentAttempt == IF entry = "flow" THEN attempt ELSE executions

----------------------------------------------------------------------------
(* Claims *)

\* C1: send_message_with_full_retry makes at most 20 flow attempts per
\* invocation, whatever fails; after a 20th failed attempt no attempt starts.
C1_AtMostTwentyAttempts ==
    entry = "flow" => (starts <= 20 /\ attempt <= 20)

C1_Witness == FlowDone /\ starts = 20 /\ flowResult = "raised"

\* C2 (as claimed): every browser session opened by start_playwright is
\* closed before the next attempt starts and before the invocation ends,
\* also when the session fails while being started: at the end of an
\* invocation as many sessions were closed as were opened.
C2_SessionsBalanced ==
    entry = "flow" =>
        /\ pc = "done" => sessionsOpened = sessionsClosed
        /\ pc = "start_playwright" => sessionsOpened = sessionsClosed

C4_SuccessRecord ==
    (TaskDone /\ backendReliable) =>
        /\ Cardinality(Rows(IsSuccess)) = 1
        /\ Cardinality(Rows(IsError)) = 0

\* C5 (as claimed): once flow-level attempt k+1 has started, for k in 1..19,
\* the log holds exactly one INFO or WARNING record with the job's id that
\* cites the failed attempt k.
C5_RetryRecordPerFailedAttempt ==
    \A k \in 1..19 :
        CurrentAttempt > k =>
            Cardinality({ i \in DOMAIN log : AnnouncesRetry(log[i], k) }) = 1

\* C6 (as claimed): a job whose 20th flow-level attempt failed ends with
\* exactly one ERROR record, no "will retry" record for attempt 20, and no
\* attempt after the 20th.
C6_FinalAttemptError ==
    (pc = "done" /\ CurrentAttempt >= 20 /\ flowResult # "True" /\ taskState # "SUCCESS") =>
        /\ Cardinality(Rows(IsError)) = 1
        /\ { i \in DOMAIN log : AnnouncesRetry(log[i], 20) } = {}
        /\ CurrentAttempt = 20

\* C7: when the flow-level ceiling is exhausted, send_message_with_full_retry
\* does not return but lets the failure out to its caller; a job whose
\* retries are exhausted ends FAILURE, never SUCCESS.
C7_ExhaustionPropagates ==
    /\ (FlowDone /\ attempt = 20 /\ flowResult # "True") =>
           flowResult \in {"raised", "SystemExit"}
    /\ flowResult # "False"
    /\ (TaskDone /\ retries >= max_retries) => taskState = "FAILURE"

C7_Witness == FlowDone /\ attempt = 20 /\ flowResult = "raised" /\ stops = 20

\* C8: send_message tries the recipient field at most 20 times and goes on
\* to subject, body and submit exactly when a suggestion click succeeded on
\* one of the attempts 1..20: it gives up only after the 20th failure.
C8_RecipientCeiling ==
    /\ recipTries <= 20
    /\ formReached => recipient_clicked
    /\ pc = "fill_and_submit" => recipient_clicked
    /\ recipient_clicked => (pc = "fill_and_submit" \/ formReached)
    /\ (pc = "flow_except" /\ recipTries > 0 /\ ~formReached) =>
           (~recipient_clicked /\ recipTries = 20)

C8_Witness ==
    /\ pc = "fill_and_submit"
    /\ recipTries = 20
    /\ recipient_clicked
    /\ ~formReached
    /\ failure = "none"

\* send_message has just returned False after 20 failed recipient attempts.
RecipientGivenUp ==
    /\ pc \in {"flow_except", "task_returned"}
    /\ recipTries = 20
    /\ ~recipient_clicked

\* C9 (as claimed): when the recipient click has failed on all 20 attempts
\* of a send, an ERROR record citing 20 attempts is in the log store, and
\* no SUCCESS record is.
C9_RecipientErrorRecord ==
    RecipientGivenUp =>
        /\ \E i \in DOMAIN log :
               /\ log[i].level = "ERROR"
               /\ log[i].kind = "recipient_failed"
               /\ log[i].n = 20
        /\ Rows(IsSuccess) = {}

\* C10 (as claimed): at most one browser session is open at any time;
\* start_playwright never runs while an earlier session is still open.
C10_OneOpenSession == liveBrowsers <= 1

\* The job is over: the flow call has ended, or the task is SUCCESS, or it
\* is FAILURE with its 20 retries used up.
JobEnded ==
    /\ pc = "done"
    /\ entry = "task" =>
           \/ taskState = "SUCCESS"
           \/ taskState = "FAILURE" /\ retries = 20
    /\ entry = "flow" => flowResult # "none"

\* C11: every job eventually terminates, succeeded or failed with its
\* retries exhausted, provided every browser interaction returns or times
\* out; no job retries forever or stays unfinished.
C11_JobTerminates == <>JobEnded

C11_Witness == TaskDone /\ taskState = "FAILURE" /\ retries = 20 /\ executions = 21


\* C12: no failure inside a job terminates the worker process: whichever
\* step fails, a failure to start the browser session included, the process
\* that runs the job is never exited.
C12_ProcessSurvives == flowResult # "SystemExit"

\* C13: every record a job hands to log_event, the recipient-field failure
\* record included, carries the job's task identifier as its task_id.
C13_RecordsCarryJobId == lastLogCall # NoCall => lastLogCall.task_id = TaskId

\* C18: whenever the send_lectio_msg job calls the send step, a browser
\* session was opened and login and navigation succeeded in that execution.
C18_SendOnlyThroughFlow ==
    (entry = "task" /\ pc \in {"send_message", "recipient", "fill_and_submit"})
        => (page /\ liveBrowsers > 0 /\ loggedIn /\ navigated)

InSendStep == pc \in {"send_message", "recipient", "fill_and_submit"}

\* C19: within an attempt of send_message_with_full_retry the browser is
\* started first, navigate_to_messages runs only after login_to_lectio
\* returned True, send_message only after navigate_to_messages returned
\* True, and after a failed step no later step of the attempt runs.
C19_StepsInOrder ==
    entry = "flow" =>
        /\ pc \in {"login_to_lectio", "navigate_to_messages"} \/ InSendStep
               => starts = attempt /\ page
        /\ pc = "login_to_lectio" => ~loggedIn /\ ~navigated
        /\ pc = "navigate_to_messages" => loggedIn /\ ~navigated
        /\ InSendStep => loggedIn /\ navigated
        /\ failure # "none" => pc \in {"flow_except", "done"}

C19_Witness ==
    /\ entry = "flow"
    /\ pc = "fill_and_submit"
    /\ attempt = 3
    /\ loggedIn /\ navigated

\* C20: an attempt that failed because the page title did not contain the
\* username is ended by closing the session, and while fewer than 20
\* attempts were made the flow starts over with the next attempt.
C20_TitleMismatchClosesAndRetries ==
    [][(pc = "flow_except" /\ failure = "title_mismatch")
          => /\ liveBrowsers' = 0
             /\ attempt < 20 => (pc' = "start_playwright" /\ attempt' = attempt + 1)]_vars


\* C14: the log store is append-only: whatever log_event, log_event_general
\* or query operation runs, every row appended before is still there with
\* the same fields at the same place, and no row is updated or deleted.
C14_AppendOnly ==
    [][/\ Len(log') >= Len(log)
       /\ \A i \in 1..Len(log) : log'[i] = log[i]]_vars

C14_Witness ==
    /\ Len(log) = 3
    /\ log[1].task_id = "N/A"
    /\ log[2].task_id = log[3].task_id
    /\ log[2] # log[3]
    /\ response.op = "fetch_logs_by_task_id"
    /\ Len(response.body) = 2

\* C15: GET /logs/by_task_id/{id} answers with exactly the rows whose
\* task_id is the requested id, all of them and no others, newest first.
C15_QueryByJobId ==
    [][(response' # response /\ response'.op = "GET /logs/by_task_id")
          => LET rows == response'.body
             IN  /\ response'.status = 200
                 /\ {rows[k].id : k \in 1..Len(rows)}
                        = {i \in 1..Len(log) : log[i].task_id = response'.arg}
                 /\ \A k \in 1..Len(rows) : rows[k].row = log[rows[k].id]
                 /\ \A k \in 1..(Len(rows) - 1) : rows[k].id > rows[k + 1].id]_vars

\* C16: a POST /send-message request puts exactly one job on the queue and
\* is answered with that job's task_id and "Task submitted"; the answer is
\* given while the job has not started and no running job is touched by it.
C16_FireAndForget ==
    [][/\ queue' # queue =>
            /\ Len(queue') = Len(queue) + 1
            /\ \A i \in 1..Len(queue) : queue'[i] = queue[i]
            /\ \A i \in 1..Len(queue) : queue[i] # queue'[Len(queue')]
            /\ response'.op = "POST /send-message"
            /\ response'.status = 200
            /\ response'.body = [task_id |-> queue'[Len(queue')], status |-> "Task submitted"]
            /\ current < Len(queue')
            /\ UNCHANGED << pc, taskState, retries, log >>
       /\ response' # response => queue' # queue]_vars

C16_Witness ==
    /\ response.op = "POST /send-message"
    /\ response.body.task_id = JobIds[2]
    /\ current = 1
    /\ pc = "done"
    /\ taskState = "FAILURE"


\* The session a job's LectioBot refers to, if any, was opened by job j.
OwnSession(l, j) ==
    l.held # 0 => (l.held \in 1..Len(sessionOwner) /\ sessionOwner[l.held] = j)

\* The number of awaited log_event calls a job with locals l has made.
AppendsMade(l) ==
    IF entry = "flow" THEN 0
    ELSE l.executions
             + (IF l.pc = "task_raised" \/ (l.pc = "done" /\ l.taskState = "FAILURE")
                THEN l.retries + 1 ELSE l.retries)
             + (IF l.pc = "done" THEN 1 ELSE 0)

RowsOfJob(j) == Len(SelectSeq(log, LAMBDA r : r.task_id = JobIds[j]))

JobsIsolated ==
    /\ OwnSession(Locals, current)
    /\ OwnSession(other, 3 - current)
    /\ (held # 0 /\ other.held # 0) => held # other.held
    /\ RowsOfJob(current) = AppendsMade(Locals)
    /\ RowsOfJob(3 - current) = AppendsMade(other)

\* C17: however the steps of two running jobs interleave, each job's
\* LectioBot refers only to a session that job opened, a job closes only
\* its own session, and the log store holds every record either job
\* appended: none is lost, overwritten or moved.
C17_ConcurrentJobsIsolated ==
    [][/\ JobsIsolated'
       /\ \A i \in 1..Len(log) : i <= Len(log') /\ log'[i] = log[i]
       /\ sessionsClosed' # sessionsClosed =>
              /\ sessionsClosed' = sessionsClosed + 1
              /\ current' = current
              /\ held # 0 /\ sessionOwner[held] = current]_vars

C17_Witness ==
    /\ entry = "task"
    /\ pc = "done"
    /\ other.pc = "done"
    /\ RowsOfJob(1) = 43
    /\ RowsOfJob(2) = 43
    /\ log[Len(log)].task_id # log[Len(log) - 1].task_id
    /\ log[Len(log) - 2].task_id # log[Len(log) - 3].task_id
    /\ log[Len(log) - 4].task_id = JobIds[1]
    /\ log[Len(log) - 5].task_id = JobIds[2]


\* C21: the body of the send_lectio_msg job runs at most 20 times per job,
\* and the attempt number k of every "Flow attempt k/20" record is in 1..20.
C21_AtMostTwentyExecutions ==
    /\ executions <= 20
    /\ \A i \in DOMAIN log : log[i].kind = "will_retry" => log[i].n \in 1..20

\* C22: a record announcing a retry after attempt k is followed by another
\* attempt of the job: when the job has ended, every such record is about
\* an attempt before the last one.
C22_AnnouncedRetryHappens ==
    pc = "done" =>
        \A i \in DOMAIN log : ~AnnouncesRetry(log[i], CurrentAttempt)

\* C23: a job has a SUCCESS record only if its send button was clicked and
\* send_message returned True; a job without a submission has none.
C23_SuccessOnlyIfSubmitted ==
    /\ Rows(IsSuccess) # {} => submitted > 0
    /\ (lastLogCall.level = "SUCCESS" /\ lastLogCall.task_id = TaskId) => submitted > 0

C23_Witness ==
    /\ TaskDone
    /\ taskState = "FAILURE"
    /\ submitted = 0
    /\ Rows(IsSuccess) = {}
    /\ lastLogCall = Rec("ERROR", TaskId, "task_failed", 0)

\* C24: send_message reports every failure through its result: no
\* exception leaves it, and it returns True only after the send button was
\* clicked.
C24_SendReportsByResult ==
    /\ sendResult # "raised"
    /\ sendResult = "True" => submitted > 0

\* C25: send_message returns True only if the indicator that the message
\* was sent was present after the click.
C25_TrueOnlyIfConfirmed == sendResult = "True" => indicator = "present"

\* C26: every call of stop_playwright on a bot whose Playwright driver was
\* started stops that driver, whatever else fails in it.
C26_DriverAlwaysStopped ==
    [][(stops' = stops + 1 /\ playwright) => driversStopped' = driversStopped + 1]_vars


\* C27: in a worker no job hands a record to log_event before the logs
\* table exists, so the first append on a fresh store cannot fail for a
\* missing table.
C27_TableBeforeFirstAppend == lastLogCall # NoCall => tableExists

PoolsOfType(made, t) == Cardinality({i \in DOMAIN made : made[i] = t})

\* C28: whatever init_connection_pool and get_connection calls are made,
\* at most one pool per pool type is constructed; a pool once set stays
\* the one in place, and a call with any other pool_type raises ValueError
\* and leaves both pools as they were.
C28_OnePoolPerType ==
    [][/\ \A t \in {"fastapi", "celery"} : PoolsOfType(poolsConstructed', t) <= 1
       /\ Len(poolsConstructed') <= 2
       /\ fastapi_connection_pool # 0 => fastapi_connection_pool' = fastapi_connection_pool
       /\ celery_connection_pool # 0 => celery_connection_pool' = celery_connection_pool
       /\ (poolResult' # poolResult /\ poolResult' = "ValueError") => UNCHANGED pools
       /\ \A t \in PoolTypeArgs \ {"fastapi", "celery"} :
              /\ init_connection_pool(PoolState, t) = [PoolState EXCEPT !.raised = "ValueError"]
              /\ get_connection_body(PoolState, t) = [PoolState EXCEPT !.raised = "ValueError"]]_vars

C28_Witness ==
    /\ poolsConstructed = << "celery", "fastapi" >>
    /\ celery_connection_pool = 1
    /\ fastapi_connection_pool = 2
    /\ poolResult = "ValueError"
    /\ pc = "done"

====
